---- MODULE Spec2Model ----
(***************************************************************************)
(* Model of the Markov-chain text generator: the MarkovChain engine        *)
(* (markov_engine.py) behind the request handlers of app.py, which share   *)
(* one global MarkovChain instance.                                        *)
(*                                                                         *)
(* A Python str is a sequence of one-character strings, so that            *)
(* tokenizing, joining, lower-casing and substring search are computed     *)
(* rather than assumed.  A token, a state (table key) and a text are all   *)
(* such sequences.                                                         *)
(***************************************************************************)
EXTENDS Integers, Sequences, FiniteSets, TLC

\* ------------------------------------------------------------------ bounds
MaxTokens == 3          \* tokens of a generated training text
MaxOrder  == 2          \* largest order requested that can train
MaxLength == 4          \* largest generation length that runs the walk
MaxN      == 2          \* largest n-gram size requested
MaxLimit  == 2          \* largest n-gram limit requested
MaxConcLength == 2      \* largest generation length beside a running train

\* ------------------------------------------------- program constants (app)
OrderLimit  == 10       \* order < 1 or order > 10 is rejected
LengthLimit == 500      \* length < 1 or length > 500 is rejected
SampleShown == 5        \* sample_words[:5]
SamplePool  == 10       \* list(unique_words)[:10]
IterationFactor == 3    \* max_iterations = length * 3
NLimit      == 10       \* n < 1 or n > 10 is rejected
LimitLimit  == 100      \* limit < 1 or limit > 100 is rejected

\* ------------------------------------------------------------ Python str
SP == " "

LowerChar(c) ==
  CASE c = "A" -> "a"
    [] c = "T" -> "t"
    [] c = "G" -> "g"
    [] c = "S" -> "s"
    [] OTHER   -> c

\* str.lower()
Lower(s) == [i \in 1..Len(s) |-> LowerChar(s[i])]

\* sub in s  (substring test)
Contains(sub, s) ==
  \E i \in 0..(Len(s) - Len(sub)) : SubSeq(s, i + 1, i + Len(sub)) = sub

\* str.strip(): drop leading and trailing whitespace
RECURSIVE LStrip(_)
LStrip(s) == IF s # <<>> /\ Head(s) = SP THEN LStrip(Tail(s)) ELSE s

RECURSIVE RStrip(_)
RStrip(s) ==
  IF s # <<>> /\ s[Len(s)] = SP THEN RStrip(SubSeq(s, 1, Len(s) - 1)) ELSE s

Strip(s) == RStrip(LStrip(s))

\* str.split(): the maximal runs of non-whitespace characters, in order.
\* cur is the run being read, acc the runs already closed.
RECURSIVE SplitFrom(_, _, _)
SplitFrom(s, cur, acc) ==
  IF s = <<>>
    THEN IF cur = <<>> THEN acc ELSE Append(acc, cur)
    ELSE IF Head(s) = SP
      THEN SplitFrom(Tail(s), <<>>, IF cur = <<>> THEN acc ELSE Append(acc, cur))
      ELSE SplitFrom(Tail(s), Append(cur, Head(s)), acc)

Split(s) == SplitFrom(s, <<>>, <<>>)

\* ' '.join(words)
RECURSIVE Join(_)
Join(words) ==
  IF words = <<>> THEN <<>>
  ELSE IF Len(words) = 1 THEN words[1]
  ELSE words[1] \o <<SP>> \o Join(Tail(words))

\* MarkovChain.tokenize
tokenize(text) == SelectSeq(Split(Strip(text)), LAMBDA word : word # <<>>)

\* MarkovChain.is_sentence_start / is_sentence_end: re.search(r'[.!?]$', word)
is_sentence_end(word) == word # <<>> /\ word[Len(word)] \in {".", "!", "?"}

is_sentence_start(word) == is_sentence_end(word)

\* random.choice(seq): the outcomes of a uniform draw
Choices(seq) == {seq[i] : i \in 1..Len(seq)}

\* ------------------------------------------------------------ the Model
VARIABLES
  chain,          \* self.chain: state -> list of next words (a defaultdict)
  order,          \* self.order
  start_words,    \* self.start_words: list of states
  corpus_text,    \* self.corpus_text
  word_count,     \* self.word_count
  unique_words,   \* self.unique_words: set of tokens
  response,       \* the reply of the last request handled by app.py
  trained_once,   \* whether some /api/train request has succeeded so far
  pc,             \* "idle"; "walk" while generate is in its loop; "reply"
                  \* when a handler has built its reply and returns it
  length,         \* generate's locals, meaningful while pc = "walk"
  seed,
  padding_state,
  current_state,
  result,
  generated_words,
  iterations,
  trainer         \* a train call running in another request thread: where it
                  \* stands in MarkovChain.train, its loop index, its reply

vars == <<chain, order, start_words, corpus_text, word_count, unique_words,
          response, trained_once, pc, length, seed, padding_state,
          current_state, result, generated_words, iterations, trainer>>

locals == <<length, seed, padding_state, current_state, result,
            generated_words, iterations>>

model == <<chain, order, start_words, corpus_text, word_count, unique_words>>

\* defaultdict(list) with no key
EmptyChain == [k \in {} |-> <<>>]

\* (variant: the next word is stored once per state, repeats dropped)
ChainAppendOnce(ch, state, next_word) ==
  IF state \in DOMAIN ch
    THEN IF next_word \in Choices(ch[state])
           THEN ch
           ELSE [ch EXCEPT ![state] = Append(@, next_word)]
    ELSE [k \in (DOMAIN ch) \cup {state} |->
            IF k = state THEN <<next_word>> ELSE ch[k]]

\* self.chain[state].append(next_word): the key is created if absent
ChainAppend(ch, state, next_word) ==
  IF state \in DOMAIN ch
    THEN [ch EXCEPT ![state] = Append(@, next_word)]
    ELSE [k \in (DOMAIN ch) \cup {state} |->
            IF k = state THEN <<next_word>> ELSE ch[k]]

\* tokens[i:i+n] with Python's 0-based i
Slice(tokens, i, n) == SubSeq(tokens, i + 1, i + n)

\* (variant: the test looks at the window's first token, not the one before)
IsStartOfWindow(tokens, i) == i = 0 \/ is_sentence_start(tokens[i + 1])

\* "if i == 0 or self.is_sentence_start(tokens[i - 1])", i 0-based
IsStart(tokens, i) == i = 0 \/ is_sentence_start(tokens[i])

\* One pass of the loop "for i in range(len(tokens) - order)" of train, from
\* position i on; m holds chain, start_words and unique_words built so far.
\* The body of that loop for one i
TrainIteration(tokens, ord, i, m) ==
  LET state     == Join(Slice(tokens, i, ord))
      next_word == tokens[i + ord + 1]
      uniq      == m.unique_words
                     \cup {tokens[j] : j \in (i + 1)..(i + ord)}
                     \cup {next_word}
      starts    == IF IsStart(tokens, i)
                     THEN Append(m.start_words, state)
                     ELSE m.start_words
  IN [chain        |-> ChainAppend(m.chain, state, next_word),
      start_words  |-> starts,
      unique_words |-> uniq]

RECURSIVE TrainLoop(_, _, _, _)
TrainLoop(tokens, ord, i, m) ==
  IF i >= Len(tokens) - ord THEN m
  ELSE TrainLoop(tokens, ord, i + 1, TrainIteration(tokens, ord, i, m))

\* The "if not self.start_words" fallback after the loop
StartFallback(tokens, ord, starts) ==
  IF starts = <<>> THEN <<Join(Slice(tokens, 0, ord))>> ELSE starts

\* (variant: the guard is off by one)
CorpusShorterThanOrder(n, ord) == n < ord

\* train's guard: len(tokens) < order + 1 raises ValueError
CorpusTooSmall(n, ord) == n < ord + 1

\* The fields train leaves behind for (text, ord), whether it returns or raises
TrainedFields(text, ord) ==
  LET tokens == tokenize(text)
      empty  == [chain |-> EmptyChain, start_words |-> <<>>, unique_words |-> {}]
      m      == IF CorpusTooSmall(Len(tokens), ord)
                  THEN empty
                  ELSE TrainLoop(tokens, ord, 0, empty)
  IN [chain        |-> m.chain,
      order        |-> ord,
      start_words  |-> IF CorpusTooSmall(Len(tokens), ord)
                         THEN <<>>
                         ELSE StartFallback(tokens, ord, m.start_words),
      corpus_text  |-> text,
      word_count   |-> Len(tokens),
      unique_words |-> m.unique_words]

\* round(n / d, 2), kept as an integer number of hundredths (ties to even)
Round2(n, d) ==
  LET q == (n * 100) \div d
      r == (n * 100) % d
  IN IF 2 * r < d THEN q
     ELSE IF 2 * r > d THEN q + 1
     ELSE IF q % 2 = 0 THEN q ELSE q + 1

RECURSIVE SumLen(_, _)
SumLen(ch, keys) ==
  IF keys = {} THEN 0
  ELSE LET k == CHOOSE x \in keys : TRUE
       IN Len(ch[k]) + SumLen(ch, keys \ {k})

\* MarkovChain.get_statistics over the given fields
Statistics(ch, ord, wc, uniq) ==
  LET states      == Cardinality(DOMAIN ch)
      transitions == SumLen(ch, DOMAIN ch)
  IN [order               |-> ord,
      word_count          |-> wc,
      unique_words        |-> Cardinality(uniq),
      states              |-> states,
      transitions         |-> transitions,
      average_transitions |-> IF states # 0 THEN Round2(transitions, states) ELSE 0,
      vocabulary_richness |-> IF wc > 0 THEN Round2(Cardinality(uniq) * 100, wc) ELSE 0]

get_statistics == Statistics(chain, order, word_count, unique_words)

\* ------------------------------------------------------- n-gram reporter
NgramList(tokens, n) ==
  [i \in 1..(Len(tokens) - n + 1) |-> Join(SubSeq(tokens, i, i + n - 1))]

CountOf(list, g) == Cardinality({i \in 1..Len(list) : list[i] = g})

\* the distinct n-grams in first-encountered order, each with its count
RECURSIVE Counted(_, _, _)
Counted(list, i, acc) ==
  IF i > Len(list) THEN acc
  ELSE IF \E j \in 1..(i - 1) : list[j] = list[i]
    THEN Counted(list, i + 1, acc)
    ELSE Counted(list, i + 1,
                 Append(acc, [ngram |-> list[i], count |-> CountOf(list, list[i])]))

\* insert behind every entry whose count is at least as large (stable)
RECURSIVE InsertByCount(_, _)
InsertByCount(sorted, item) ==
  IF sorted = <<>> THEN <<item>>
  ELSE IF Head(sorted).count >= item.count
    THEN <<Head(sorted)>> \o InsertByCount(Tail(sorted), item)
    ELSE <<item>> \o sorted

RECURSIVE MostCommon(_, _)
MostCommon(items, sorted) ==
  IF items = <<>> THEN sorted
  ELSE MostCommon(Tail(items), InsertByCount(sorted, Head(items)))

\* MarkovChain.get_ngram_frequencies
get_ngram_frequencies(n, limit) ==
  LET ranked == MostCommon(Counted(NgramList(tokenize(corpus_text), n), 1, <<>>), <<>>)
  IN SubSeq(ranked, 1, IF Len(ranked) < limit THEN Len(ranked) ELSE limit)

\* ------------------------------------------------------------- generate
\* seed: None, or a str
NoSeed == [given |-> FALSE, text |-> <<>>]

\* "if seed:" is false for None and for the empty str
Truthy(sd) == sd.given /\ sd.text # <<>>

\* words[:k]
Take(words, k) == SubSeq(words, 1, IF k < Len(words) THEN k ELSE Len(words))

\* words[-k:] for 1 <= k <= len(words)
LastOf(words, k) == SubSeq(words, Len(words) - k + 1, Len(words))

\* (variant: the seed tokens are compared with the vocabulary as they are)
SeedWordsInCorpusExact(seed_tokens, uniq) ==
  SelectSeq(seed_tokens, LAMBDA word : word \in uniq)

\* seed_words_in_corpus: the seed tokens that lower-case to a lower-cased
\* member of unique_words
SeedWordsInCorpus(seed_tokens, uniq) ==
  SelectSeq(seed_tokens, LAMBDA word : Lower(word) \in {Lower(w) : w \in uniq})

\* The words the ValueError names: the first 5 of list(unique_words), whose
\* order is the set's iteration order, so any 5 members (all, if fewer).
\* The order of the names inside the message is dropped.
SampleSize(uniq) ==
  LET pool == IF Cardinality(uniq) > SamplePool THEN SamplePool ELSE Cardinality(uniq)
  IN IF pool < SampleShown THEN pool ELSE SampleShown

SampleWords(uniq) == {S \in SUBSET uniq : Cardinality(S) = SampleSize(uniq)}

\* The candidate state of a seed with a matching token, with the start state
\* drawn for padding (<<>> when none is drawn)
SeedCandidates(seed_tokens, ord, starts) ==
  IF Len(seed_tokens) >= ord
    THEN {[padding |-> <<>>, state |-> Join(LastOf(seed_tokens, ord))]}
    ELSE {[padding |-> p,
           state   |-> Join(Take(Split(p), ord - Len(seed_tokens)) \o seed_tokens)]
            : p \in Choices(starts)}

\* matching_states: the keys holding a matched seed word as a substring
MatchingStates(ch, matched) ==
  {state \in DOMAIN ch :
     \E i \in 1..Len(matched) : Contains(Lower(matched[i]), Lower(state))}

\* (variant: the candidate is used without looking it up in the table)
ResolveStateUnchecked(ch, starts, cand, matched) == {cand}

\* (variant: a candidate that is no key goes straight to a start state)
ResolveStateNoSearch(ch, starts, cand, matched) ==
  IF cand \notin DOMAIN ch THEN Choices(starts) ELSE {cand}

\* The states generate may start the walk from, once the candidate is known
ResolveState(ch, starts, cand, matched) ==
  IF cand \notin DOMAIN ch
    THEN IF MatchingStates(ch, matched) # {}
           THEN MatchingStates(ch, matched)
           ELSE Choices(starts)
    ELSE {cand}

\* (variant: without a seed the walk starts from any key of the table)
InitialStatesAnyKey(sd, ch, ord, starts, uniq) ==
  IF Truthy(sd)
    THEN LET seed_tokens == tokenize(sd.text)
             matched     == SeedWordsInCorpus(seed_tokens, uniq)
         IN UNION {{[padding |-> c.padding, state |-> st]
                      : st \in ResolveState(ch, starts, c.state, matched)}
                   : c \in SeedCandidates(seed_tokens, ord, starts)}
    ELSE {[padding |-> <<>>, state |-> st] : st \in DOMAIN ch}

\* generate up to the loop: the set of (padding_state, current_state) it can
\* reach for a truthy or absent seed
InitialStates(sd, ch, ord, starts, uniq) ==
  IF Truthy(sd)
    THEN LET seed_tokens == tokenize(sd.text)
             matched     == SeedWordsInCorpus(seed_tokens, uniq)
         IN UNION {{[padding |-> c.padding, state |-> st]
                      : st \in ResolveState(ch, starts, c.state, matched)}
                   : c \in SeedCandidates(seed_tokens, ord, starts)}
    ELSE {[padding |-> <<>>, state |-> st] : st \in Choices(starts)}

\* (variant: loop until exactly `length` words, with no iteration cap)
LoopCondExact(gw, len, it) == gw # len

\* (variant: the loop also runs when generated_words equals length)
LoopCondInclusive(gw, len, it) == gw <= len /\ it < len * IterationFactor

\* "while generated_words < length and iterations < max_iterations"
LoopCond(gw, len, it) == gw < len /\ it < len * IterationFactor

\* self.chain.get(current_state, []): the candidates read ...
ChainGet(ch, state) == IF state \in DOMAIN ch THEN ch[state] ELSE <<>>

\* (variant: self.chain[current_state], which makes a defaultdict add the key)
ChainAfterIndexing(ch, state) ==
  IF state \in DOMAIN ch THEN ch
  ELSE [k \in (DOMAIN ch) \cup {state} |-> IF k = state THEN <<>> ELSE ch[k]]

\* ... and the table after the read: dict.get adds no key
ChainAfterGet(ch, state) == ch

\* the locals die with the call
ResetLocals ==
  /\ length' = 0
  /\ seed' = NoSeed
  /\ padding_state' = <<>>
  /\ current_state' = <<>>
  /\ result' = <<>>
  /\ generated_words' = 0
  /\ iterations' = 0

Reply(op, status, error) == [op |-> op, status |-> status, error |-> error]

\* ----------------------------------------------------------------- inputs
Words == {<<"a">>, <<"a", ".">>}

SeedWords == Words \cup {<<"A">>}

TokenSeqs(W, n) == UNION {[1..k -> W] : k \in 0..n}

\* the tokens, separated by one space, or by two with a space at both ends
TextOf(tokens, wide) ==
  IF wide
    THEN <<SP>> \o Join([i \in 1..Len(tokens) |-> tokens[i] \o <<SP>>])
    ELSE Join(tokens)

\* "The cat sat. The dog ran."
ExampleTokens ==
  << <<"T","h","e">>, <<"c","a","t">>, <<"s","a","t",".">>,
     <<"T","h","e">>, <<"d","o","g">>, <<"r","a","n",".">> >>

\* "The cat sat. The dog ran. Go on!": more than 5 unique tokens
LongTokens == ExampleTokens \o << <<"G","o">>, <<"o","n","!">> >>

Texts ==
  {TextOf(t, w) : t \in TokenSeqs(Words, MaxTokens), w \in BOOLEAN}
    \cup {Join(ExampleTokens), Join(LongTokens)}

Orders == (0..MaxOrder) \cup {OrderLimit + 1}

Lengths == (0..MaxLength) \cup {LengthLimit + 1}

Seeds ==
  {NoSeed, [given |-> TRUE, text |-> <<>>], [given |-> TRUE, text |-> <<SP>>],
   [given |-> TRUE, text |-> <<"S","a","t",".">>]}
    \cup {[given |-> TRUE, text |-> Join(t)] : t \in TokenSeqs(SeedWords, MaxOrder) \ {<<>>}}

\* ---------------------------------------------------------------- actions
\* no train call is running beside the request being handled
NoTrainer == [pc |-> "idle", i |-> 0, reply |-> [status |-> 0]]

Init ==
  /\ chain = EmptyChain
  /\ order = 1
  /\ start_words = <<>>
  /\ corpus_text = <<>>
  /\ word_count = 0
  /\ unique_words = {}
  /\ response = [op |-> "none", status |-> 0, error |-> ""]
  /\ trained_once = FALSE
  /\ pc = "idle"
  /\ length = 0
  /\ seed = NoSeed
  /\ padding_state = <<>>
  /\ current_state = <<>>
  /\ result = <<>>
  /\ generated_words = 0
  /\ iterations = 0
  /\ trainer = NoTrainer

\* POST /api/train: train_model, with MarkovChain.train inside
TrainRequest(text, ord) ==
  /\ pc = "idle"
  /\ pc' = "reply"
  /\ UNCHANGED <<locals, trainer>>
  /\ IF text = <<>>
       THEN /\ response' = Reply("train", 400, "No text provided")
            /\ UNCHANGED <<model, trained_once>>
     ELSE IF ord < 1 \/ ord > OrderLimit
       THEN /\ response' = Reply("train", 400, "Order must be an integer between 1 and 10")
            /\ UNCHANGED <<model, trained_once>>
     ELSE LET f == TrainedFields(text, ord)
          IN /\ chain' = f.chain
             /\ order' = f.order
             /\ start_words' = f.start_words
             /\ corpus_text' = f.corpus_text
             /\ word_count' = f.word_count
             /\ unique_words' = f.unique_words
             /\ IF CorpusTooSmall(f.word_count, ord)
                  THEN /\ response' = [op |-> "train", status |-> 400,
                                       error |-> "Corpus too small",
                                       need |-> ord + 1, got |-> f.word_count]
                       /\ UNCHANGED trained_once
                  ELSE /\ response' = [op |-> "train", status |-> 200, error |-> "",
                                       statistics |->
                                         Statistics(f.chain, f.order, f.word_count,
                                                    f.unique_words)]
                       /\ trained_once' = TRUE

\* POST /api/generate: generate_text, and MarkovChain.generate up to its loop
GenerateRequest(len, sd) ==
  /\ pc = "idle"
  /\ UNCHANGED <<model, trained_once, trainer>>
  /\ IF len < 1 \/ len > LengthLimit
       THEN /\ response' = Reply("generate", 400, "Length must be an integer between 1 and 500")
            /\ pc' = "reply"
            /\ UNCHANGED locals
     ELSE IF chain = EmptyChain
       THEN /\ response' = Reply("generate", 400, "Model not trained")
            /\ pc' = "reply"
            /\ UNCHANGED locals
     ELSE IF Truthy(sd) /\ SeedWordsInCorpus(tokenize(sd.text), unique_words) = <<>>
       THEN /\ \E sample \in SampleWords(unique_words) :
                 response' = [op |-> "generate", status |-> 400,
                              error |-> "invalid_seed", seed |-> sd,
                              sample |-> sample]
            /\ pc' = "reply"
            /\ UNCHANGED locals
     ELSE IF InitialStates(sd, chain, order, start_words, unique_words) = {}
       THEN \* random.choice of an empty start_words raises IndexError
            /\ response' = Reply("generate", 500, "Generation failed")
            /\ pc' = "reply"
            /\ UNCHANGED locals
     ELSE \E init \in InitialStates(sd, chain, order, start_words, unique_words) :
            /\ response' = Reply("generate", 0, "")
            /\ pc' = "walk"
            /\ length' = len
            /\ seed' = sd
            /\ padding_state' = init.padding
            /\ current_state' = init.state
            /\ result' = Split(init.state)
            /\ generated_words' = Len(Split(init.state))
            /\ iterations' = 0

\* (variant: the jump does not look at the room left before `length`)
ResentenceAnywhere(next_word, draw, gw, len, ord) ==
  is_sentence_end(next_word) /\ draw

\* "if self.is_sentence_end(next_word) and random.random() > 0.3:
\*      if generated_words < length - self.order:", gw already advanced
Resentence(next_word, draw, gw, len, ord) ==
  /\ is_sentence_end(next_word)
  /\ draw
  /\ gw < len - ord

\* One iteration of generate's while loop; draw is "random.random() > 0.3"
WalkStep(draw) ==
  /\ pc = "walk"
  /\ LoopCond(generated_words, length, iterations)
  /\ chain' = ChainAfterGet(chain, current_state)
  /\ UNCHANGED <<order, start_words, corpus_text, word_count, unique_words,
                 trained_once, length, seed, padding_state, trainer>>
  /\ LET possible_next_words == ChainGet(chain, current_state)
     IN IF possible_next_words = <<>>
          THEN IF start_words = <<>>
                 THEN \* random.choice of an empty start_words raises IndexError
                      /\ response' = Reply("generate", 500, "Generation failed")
                      /\ pc' = "reply"
                      /\ UNCHANGED <<current_state, result, generated_words, iterations>>
                 ELSE \E s \in Choices(start_words) :
                        /\ iterations' = iterations + 1
                        /\ current_state' = s
                        /\ result' = result \o << <<>> >> \o Split(s)
                        /\ generated_words' = Len(result) + 1 + Len(Split(s))
                        /\ UNCHANGED <<response, pc>>
          ELSE \E next_word \in Choices(possible_next_words) :
                 LET slid == Join(Append(Tail(Split(current_state)), next_word))
                     jump == Resentence(next_word, draw, generated_words + 1,
                                        length, order)
                 IN IF jump /\ start_words = <<>>
                      THEN /\ response' = Reply("generate", 500, "Generation failed")
                           /\ pc' = "reply"
                           /\ UNCHANGED <<current_state, result, generated_words,
                                          iterations>>
                      ELSE /\ iterations' = iterations + 1
                           /\ result' = Append(result, next_word)
                           /\ generated_words' = generated_words + 1
                           /\ IF jump
                                THEN current_state' \in Choices(start_words)
                                ELSE current_state' = slid
                           /\ UNCHANGED <<response, pc>>

\* generate's return, and the reply generate_text builds from it
GenerateReturn ==
  /\ pc = "walk"
  /\ ~LoopCond(generated_words, length, iterations)
  /\ UNCHANGED <<model, trained_once, trainer>>
  /\ LET text == Strip(Join(result))
     IN response' = [op |-> "generate", status |-> 200, error |-> "",
                     text |-> text, word_count |-> Len(Split(text)),
                     seed_used |-> IF Truthy(seed) THEN seed ELSE NoSeed]
  /\ pc' = "reply"
  /\ ResetLocals

\* GET /api/statistics
StatisticsRequest ==
  /\ pc = "idle"
  /\ pc' = "reply"
  /\ UNCHANGED <<model, trained_once, locals, trainer>>
  /\ IF chain = EmptyChain
       THEN response' = Reply("statistics", 400, "Model not trained")
       ELSE response' = [op |-> "statistics", status |-> 200, error |-> "",
                         statistics |-> get_statistics]

\* POST /api/ngrams
NgramsRequest(n, limit) ==
  /\ pc = "idle"
  /\ pc' = "reply"
  /\ UNCHANGED <<model, trained_once, locals, trainer>>
  /\ IF n < 1 \/ n > NLimit
       THEN response' = Reply("ngrams", 400, "N must be an integer between 1 and 10")
     ELSE IF limit < 1 \/ limit > LimitLimit
       THEN response' = Reply("ngrams", 400, "Limit must be an integer between 1 and 100")
     ELSE IF corpus_text = <<>>
       THEN response' = Reply("ngrams", 400, "Model not trained")
     ELSE response' = [op |-> "ngrams", status |-> 200, error |-> "",
                       ngrams |-> get_ngram_frequencies(n, limit)]

NoReply == Reply("none", 0, "")

\* the handler returns its reply to the client
Respond ==
  /\ pc = "reply"
  /\ pc' = "idle"
  /\ response' = NoReply
  /\ UNCHANGED <<model, trained_once, locals, trainer>>

Next ==
  \/ \E text \in Texts, ord \in Orders : TrainRequest(text, ord)
  \/ \E len \in Lengths, sd \in Seeds : GenerateRequest(len, sd)
  \/ \E draw \in BOOLEAN : WalkStep(draw)
  \/ GenerateReturn
  \/ StatisticsRequest
  \/ \E n \in (0..MaxN) \cup {NLimit + 1}, limit \in (0..MaxLimit) \cup {LimitLimit + 1} :
       NgramsRequest(n, limit)
  \/ Respond

Spec == Init /\ [][Next]_vars

\* A generate call, once in its loop, runs to its return: nothing suspends it
FairSpec == Spec /\ WF_vars(\E draw \in BOOLEAN : WalkStep(draw)) /\ WF_vars(GenerateReturn)

\* ------------------------------------------- train beside a running generate
\* app.py runs each request in its own thread on the one global MarkovChain,
\* with no lock.  Here a train call advances statement by statement in a second
\* thread, while the thread of pc handles generation requests.

\* train_model's validation, then lines 60-64: the fields are reset and the
\* order and the text stored
TrainStart(text, ord) ==
  /\ trainer.pc = "idle"
  /\ text # <<>>
  /\ ord >= 1 /\ ord <= OrderLimit
  /\ chain' = EmptyChain
  /\ start_words' = <<>>
  /\ order' = ord
  /\ corpus_text' = text
  /\ unique_words' = {}
  /\ trainer' = [pc |-> "reset", i |-> 0, reply |-> [status |-> 0]]
  /\ UNCHANGED <<word_count, response, trained_once, pc, locals>>

\* lines 66-73: the tokens are counted; too small a corpus raises ValueError
TrainCount ==
  /\ trainer.pc = "reset"
  /\ word_count' = Len(tokenize(corpus_text))
  /\ IF CorpusTooSmall(Len(tokenize(corpus_text)), order)
       THEN trainer' = [pc |-> "reply", i |-> 0, reply |-> [status |-> 400]]
       ELSE trainer' = [pc |-> "loop", i |-> 0, reply |-> [status |-> 0]]
  /\ UNCHANGED <<chain, order, start_words, corpus_text, unique_words,
                 response, trained_once, pc, locals>>

\* lines 76-91: one pass of the loop
TrainLoopStep ==
  /\ trainer.pc = "loop"
  /\ trainer.i < Len(tokenize(corpus_text)) - order
  /\ LET m == TrainIteration(tokenize(corpus_text), order, trainer.i,
                             [chain        |-> chain,
                              start_words  |-> start_words,
                              unique_words |-> unique_words])
     IN /\ chain' = m.chain
        /\ start_words' = m.start_words
        /\ unique_words' = m.unique_words
  /\ trainer' = [trainer EXCEPT !.i = @ + 1]
  /\ UNCHANGED <<order, corpus_text, word_count, response, trained_once, pc, locals>>

\* lines 93-97: the start-state fallback, and the statistics returned
TrainFinish ==
  /\ trainer.pc = "loop"
  /\ trainer.i >= Len(tokenize(corpus_text)) - order
  /\ start_words' = StartFallback(tokenize(corpus_text), order, start_words)
  /\ trainer' = [pc |-> "reply", i |-> 0,
                 reply |-> [status |-> 200,
                            statistics |-> Statistics(chain, order, word_count,
                                                      unique_words)]]
  /\ trained_once' = TRUE
  /\ UNCHANGED <<chain, order, corpus_text, word_count, unique_words,
                 response, pc, locals>>

\* train_model returns its reply
TrainRespond ==
  /\ trainer.pc = "reply"
  /\ trainer' = NoTrainer
  /\ UNCHANGED <<model, response, trained_once, pc, locals>>

\* the requests made in the two-thread runs
ConcTexts == {Join(t) : t \in TokenSeqs(Words, MaxTokens)}

ConcSeeds == {NoSeed, [given |-> TRUE, text |-> <<"A">>]}

ConcNext ==
  \/ \E text \in ConcTexts, ord \in 1..MaxOrder : TrainStart(text, ord)
  \/ TrainCount
  \/ TrainLoopStep
  \/ TrainFinish
  \/ TrainRespond
  \/ \E len \in 1..MaxConcLength, sd \in ConcSeeds : GenerateRequest(len, sd)
  \/ \E draw \in BOOLEAN : WalkStep(draw)
  \/ GenerateReturn
  \/ Respond

ConcSpec == Init /\ [][ConcNext]_vars

\* ================================================================ claims
\* the corpus as the claims speak of it: its tokens t, their number N, and
\* the window of `order` tokens at 0-based position i
CorpusTokens == tokenize(corpus_text)

Window(i) == Join(SubSeq(CorpusTokens, i + 1, i + order))

WindowPositions == 0..(Len(CorpusTokens) - order - 1)

EndsSentence(token) ==
  token # <<>> /\ (token[Len(token)] = "." \/ token[Len(token)] = "!" \/ token[Len(token)] = "?")

\* a train call reached MarkovChain.train and its reply is being returned
TrainReplied ==
  /\ pc = "reply"
  /\ response.op = "train"
  /\ response.error \in {"", "Corpus too small"}

TrainSucceeded == TrainReplied /\ response.status = 200

Transitions == SumLen(chain, DOMAIN chain)

\* C1: train(text, order) with N tokens fails with InsufficientCorpus, reporting
\* the required order + 1 and the actual N, exactly when N < order + 1, and
\* succeeds otherwise; with N = order + 1 the table has exactly one state and
\* one transition, and with N = order the call fails.
C1_InsufficientCorpus ==
  TrainReplied =>
    LET N == Len(CorpusTokens)
    IN /\ order >= 1
       /\ (response.status = 400) <=> (N < order + 1)
       /\ (response.status = 200) <=> (N >= order + 1)
       /\ response.status = 400 =>
            /\ response.error = "Corpus too small"
            /\ response.need = order + 1
            /\ response.got = N
       /\ N = order + 1 =>
            /\ response.status = 200
            /\ Cardinality(DOMAIN chain) = 1
            /\ Transitions = 1
            /\ response.statistics.states = 1
            /\ response.statistics.transitions = 1
       /\ N = order => response.status = 400

C1_Witness ==
  /\ TrainSucceeded
  /\ order = 2
  /\ Len(CorpusTokens) = order + 1
  /\ Cardinality(DOMAIN chain) = 1

\* the positions at which the window equals key, and the j-th of them
Occurrences(key) == {i \in WindowPositions : Window(i) = key}

NthOccurrence(key, j) ==
  CHOOSE i \in Occurrences(key) :
    Cardinality({x \in Occurrences(key) : x < i}) = j - 1

The  == <<"T","h","e">>
Cat  == <<"c","a","t">>
Sat  == <<"s","a","t",".">>
Dog  == <<"d","o","g">>
Ran  == <<"r","a","n",".">>

\* C2: after a successful train the keys are exactly the windows t[i..i+order)
\* for i in 0..N-order-1, every key has exactly `order` tokens, and each key's
\* candidates are the non-empty list, in corpus order and with repeats, of the
\* tokens t[i+order] over the positions i where that window occurs; "The cat
\* sat. The dog ran." with order 1 gives The->[cat,dog], cat->[sat.],
\* sat.->[The], dog->[ran.] and no other key.
C2_TableIsWindows ==
  (TrainSucceeded \/ chain # EmptyChain) =>
    /\ DOMAIN chain = {Window(i) : i \in WindowPositions}
    /\ \A key \in DOMAIN chain :
         /\ Len(Split(key)) = order
         /\ chain[key] # <<>>
         /\ Len(chain[key]) = Cardinality(Occurrences(key))
         /\ \A j \in 1..Len(chain[key]) :
              chain[key][j] = CorpusTokens[NthOccurrence(key, j) + order + 1]
    /\ (corpus_text = Join(ExampleTokens) /\ order = 1) =>
         /\ DOMAIN chain = {The, Cat, Sat, Dog}
         /\ chain[The] = <<Cat, Dog>>
         /\ chain[Cat] = <<Sat>>
         /\ chain[Sat] = <<The>>
         /\ chain[Dog] = <<Ran>>

C2_Witness ==
  /\ TrainSucceeded
  /\ corpus_text = Join(ExampleTokens)
  /\ order = 1
  /\ Len(chain[The]) = 2

\* C3: after a successful train the start states are non-empty and are exactly
\* the window at position 0 plus every window at i in 1..N-order-1 whose
\* preceding token ends in '.', '!' or '?'; with no such token the start
\* states are the single first state of the corpus.
C3_StartStates ==
  (TrainSucceeded \/ chain # EmptyChain) =>
    LET after == {i \in WindowPositions : i >= 1 /\ EndsSentence(CorpusTokens[i])}
    IN /\ start_words # <<>>
       /\ Choices(start_words) = {Window(0)} \cup {Window(i) : i \in after}
       /\ after = {} => start_words = <<Window(0)>>

C3_Witness ==
  /\ TrainSucceeded
  /\ Cardinality(Choices(start_words)) = 2
  /\ ~EndsSentence(CorpusTokens[Len(CorpusTokens)])

\* C4: the Model is populated atomically: after any sequence of train calls,
\* failing ones included, its fields are either all at their initial empty
\* values or all the values computed from the (text, order) of one single
\* successful train call.
C4_AtomicTraining ==
  \/ /\ chain = EmptyChain
     /\ order = 1
     /\ start_words = <<>>
     /\ corpus_text = <<>>
     /\ word_count = 0
     /\ unique_words = {}
  \/ /\ ~CorpusTooSmall(Len(tokenize(corpus_text)), order)
     /\ LET f == TrainedFields(corpus_text, order)
        IN /\ chain = f.chain
           /\ start_words = f.start_words
           /\ word_count = f.word_count
           /\ unique_words = f.unique_words

\* a reply to a well-formed generation request (its length was accepted)
GenerateReplied ==
  /\ pc = "reply"
  /\ response.op = "generate"
  /\ response.error # "Length must be an integer between 1 and 500"

\* C5: on a trained model generate(length) with no seed never fails, and the
\* whitespace-separated tokens of its output begin with the `order` tokens of
\* a member of the start states.
C5_UnseededStartsAtStartState ==
  /\ (GenerateReplied /\ chain # EmptyChain) =>
       \/ response.status = 200
       \/ response.error = "invalid_seed" /\ Truthy(response.seed)
  /\ (GenerateReplied /\ response.status = 200 /\ response.seed_used = NoSeed) =>
       \E s \in Choices(start_words) :
         /\ Len(Split(s)) = order
         /\ Len(Split(response.text)) >= order
         /\ SubSeq(Split(response.text), 1, order) = Split(s)

C5_Witness ==
  /\ GenerateReplied
  /\ response.status = 200
  /\ response.seed_used = NoSeed
  /\ order = 2
  /\ Len(Split(response.text)) > order
  /\ Cardinality(DOMAIN chain) > Cardinality(Choices(start_words))

\* C6: a generation, statistics or n-gram request made when no train call has
\* yet succeeded is rejected (ModelNotTrained), never answered.
C6_RejectedUntilTrained ==
  ~trained_once =>
    /\ pc # "walk"
    /\ (pc = "reply" /\ response.op \in {"generate", "statistics", "ngrams"}) =>
         response.status = 400

\* no token of the tokenized seed equals, lower-cased, a lower-cased member of
\* the unique-token set
NoSeedTokenInVocabulary(sd) ==
  \A i \in 1..Len(tokenize(sd.text)) :
    \A w \in unique_words : Lower(tokenize(sd.text)[i]) # Lower(w)

\* C7: on a trained model generate with a supplied seed (a non-empty str: the
\* code takes the empty str for no seed) fails with SeedNotFound exactly when
\* no seed token equals, lower-cased on both sides, a token of the
\* unique-token set; the error names at most 5 sample tokens, all from that
\* set, and carries no output text.
C7_SeedNotFound ==
  /\ (GenerateReplied /\ response.error = "invalid_seed") =>
       /\ chain # EmptyChain
       /\ Truthy(response.seed)
       /\ NoSeedTokenInVocabulary(response.seed)
       /\ response.status = 400
       /\ response.sample \subseteq unique_words
       /\ Cardinality(response.sample) <= 5
       /\ "text" \notin DOMAIN response
  /\ (pc = "walk" /\ Truthy(seed)) => ~NoSeedTokenInVocabulary(seed)
  /\ (GenerateReplied /\ response.status = 200 /\ Truthy(response.seed_used)) =>
       ~NoSeedTokenInVocabulary(response.seed_used)

C7_Witness ==
  /\ GenerateReplied
  /\ response.error = "invalid_seed"
  /\ Cardinality(unique_words) > 5
  /\ Cardinality(response.sample) = 5

\* C8: every generate call on a trained model terminates: the walk loop runs
\* at most max_iterations = 3 x length times for any table, dead ends
\* included, and then returns the joined text.
C8_WalkTerminates ==
  /\ [](pc = "walk" => iterations <= 3 * length)
  /\ (pc = "walk") ~>
       (pc = "reply" /\ response.op = "generate" /\ response.status = 200)

C8_Witness ==
  /\ pc = "walk"
  /\ iterations >= 2
  /\ current_state \notin DOMAIN chain
  /\ generated_words < length

\* the value train returned for the corpus and order the Model holds
TrainReturned ==
  LET f == TrainedFields(corpus_text, order)
  IN Statistics(f.chain, f.order, f.word_count, f.unique_words)

\* C9: generate (returning or failing), get_statistics and
\* get_ngram_frequencies leave order, table (no key is added by looking up an
\* absent state), start states, corpus text, word count and unique-token set
\* as they are; so every get_statistics after a train call, whatever generate
\* and n-gram calls came between, returns the value train returned.
C9_ReadOnly ==
  /\ [][response'.op # "train" => UNCHANGED model]_vars
  /\ []((pc = "reply" /\ response.op = "statistics" /\ response.status = 200)
          => response.statistics = TrainReturned)

C9_Witness ==
  /\ pc = "walk"
  /\ \E i \in 1..Len(result) : result[i] = <<>>
  /\ chain = TrainedFields(corpus_text, order).chain

\* the tokens of the seed of the running call, those matching the vocabulary
\* (compared lower-cased), and the candidate state they give
SeedTokens == tokenize(seed.text)

MatchedSeedTokens ==
  {SeedTokens[i] : i \in {j \in 1..Len(SeedTokens) :
                            \E w \in unique_words : Lower(SeedTokens[j]) = Lower(w)}}

CandidateState ==
  IF Len(SeedTokens) >= order
    THEN Join(SubSeq(SeedTokens, Len(SeedTokens) - order + 1, Len(SeedTokens)))
    ELSE Join(SubSeq(Split(padding_state), 1, order - Len(SeedTokens)) \o SeedTokens)

KeysHoldingSeed ==
  {key \in DOMAIN chain : \E w \in MatchedSeedTokens : Contains(Lower(w), Lower(key))}

\* generate has resolved its initial state and not yet entered the loop
Resolved == pc = "walk" /\ iterations = 0

\* C10: with a seed of which some token matches the vocabulary, the initial
\* state is (1) the candidate state - the last `order` seed tokens, or for a
\* shorter seed the first order - len(seed) tokens of a start state followed
\* by the seed tokens - if it is a key; (2) otherwise a key holding a matched
\* seed token as a case-insensitive substring; (3) only if there is none, a
\* start state.  It is always a key of exactly `order` tokens.
C10_SeedResolution ==
  (Resolved /\ Truthy(seed)) =>
    /\ MatchedSeedTokens # {}
    /\ Len(SeedTokens) < order => padding_state \in Choices(start_words)
    /\ CandidateState \in DOMAIN chain => current_state = CandidateState
    /\ (CandidateState \notin DOMAIN chain /\ KeysHoldingSeed # {}) =>
         current_state \in KeysHoldingSeed
    /\ (CandidateState \notin DOMAIN chain /\ KeysHoldingSeed = {}) =>
         current_state \in Choices(start_words)
    /\ current_state \in DOMAIN chain
    /\ Len(Split(current_state)) = order
    /\ result = Split(current_state)

C10_Witness ==
  /\ Resolved
  /\ Truthy(seed)
  /\ Len(SeedTokens) < order
  /\ CandidateState \notin DOMAIN chain
  /\ KeysHoldingSeed # {}
  /\ current_state \notin Choices(start_words)

\* the candidates the table holds for the current state (none if it is no key)
CurrentCandidates ==
  IF current_state \in DOMAIN chain THEN chain[current_state] ELSE <<>>

\* (a) a candidate of the current state is appended; the next state is the
\* current one slid by that token, or a start state when the token ends a
\* sentence and generated_words < length - order
AppendsCandidate ==
  \E i \in 1..Len(CurrentCandidates) :
    LET token == CurrentCandidates[i]
    IN /\ result' = result \o <<token>>
       /\ \/ current_state' = Join(Tail(Split(current_state)) \o <<token>>)
          \/ /\ current_state' \in Choices(start_words)
             /\ EndsSentence(token)
             /\ generated_words' < length - order

\* (b) a dead-end restart: the current state has no candidates, and one empty
\* token and the tokens of a start state, the new current state, are appended
RestartsAtDeadEnd ==
  /\ CurrentCandidates = <<>>
  /\ \E s \in Choices(start_words) :
       /\ result' = result \o << <<>> >> \o Split(s)
       /\ current_state' = s

\* C11: in the walk every token appended to the result is either (a) a
\* candidate of the state current at that iteration, after which the state is
\* slid (oldest token dropped, new one appended) or, only if the token ends in
\* '.', '!' or '?' and generated_words < length - order, jumps to a start state
\* without touching the result; or (b) part of a dead-end restart, only when
\* the current state has no candidates: an empty token, then the tokens of a
\* start state that becomes current.
C11_WalkTokens ==
  [][(pc = "walk" /\ pc' = "walk") => (AppendsCandidate \/ RestartsAtDeadEnd)]_vars

\* a resentencing jump has just fired
C11_Witness ==
  /\ pc = "walk"
  /\ iterations >= 1
  /\ \A i \in 1..Len(result) : result[i] # <<>>
  /\ EndsSentence(result[Len(result)])
  /\ current_state # Join(LastOf(result, order))
  /\ current_state \in Choices(start_words)

Larger(a, b) == IF a > b THEN a ELSE b

\* the words of a text: its maximal runs of non-space characters
WordsOf(text) == Len(Split(text))

\* C13: in every generate call on a trained model generated_words equals the
\* number of entries of result (empty restart tokens included) at every loop
\* test and grows in every iteration, so the loop is never left because of the
\* 3 x length cap but because generated_words >= length; on return result has
\* at least `length` and at most max(order, length + order) entries, and the
\* returned text at most max(order, length + order - 1) words.
C13_LengthAccounting ==
  /\ [](pc = "walk" => generated_words = Len(result))
  /\ [][(pc = "walk" /\ pc' = "walk") => generated_words' > generated_words]_vars
  /\ [](pc = "walk" => (generated_words >= length \/ iterations < 3 * length))
  /\ [][(pc = "walk" /\ pc' = "reply") =>
          /\ response'.status = 200
          /\ generated_words >= length
          /\ Len(result) >= length
          /\ Len(result) <= Larger(order, length + order)
          /\ WordsOf(response'.text) <= Larger(order, length + order - 1)]_vars

\* a walk about to return after a dead-end restart took it to the upper bound
C13_Witness ==
  /\ pc = "walk"
  /\ iterations >= 2
  /\ generated_words >= length
  /\ Len(result) = length + order
  /\ order = 2

\* every run of `order` consecutive tokens of the corpus the Model holds
CorpusWindows ==
  {Join(SubSeq(CorpusTokens, i + 1, i + order)) : i \in 0..(Len(CorpusTokens) - order)}

\* what every walk of a serialized run keeps: start states to choose from, and
\* a current state that is a window of the corpus the table was built from
WalkCoherent ==
  /\ start_words # <<>>
  /\ current_state \in CorpusWindows

\* C12: train and generate are not atomic with respect to each other on the
\* shared Model.  With the steps of a train call interleaved with a generate
\* call that has passed its model-trained check, the walk reaches states no
\* serialized run reaches: an emptied start-state list to choose from, or a
\* current state of the old corpus against the table of the new one.  A walk
\* enters such a state only by a step of train that changes the Model while
\* the walk is running; so with the calls serialized it never does.
C12_OnlyInterleavingBreaksWalk ==
  [][(pc' = "walk" /\ ~WalkCoherent') =>
       (pc = "walk" /\ (~WalkCoherent \/ model' # model))]_vars

\* a train call has run from start to finish during a walk, whose current
\* state is no window of the new corpus
C12_Witness ==
  /\ pc = "walk"
  /\ trainer.pc = "idle"
  /\ chain # EmptyChain
  /\ start_words # <<>>
  /\ current_state \notin CorpusWindows
  /\ LoopCond(generated_words, length, iterations)

====
